---- MODULE Spec2Model ----
(***************************************************************************)
(* Model of agent.py: the perceive / think / act loop of main(), the       *)
(* action primitives perform_tap, perform_go_back, perform_scroll, the     *)
(* screen fingerprint (the two re.sub calls) and the report call.          *)
(*                                                                         *)
(* Python strings are sequences of one-character strings, so that the      *)
(* regular expressions and the bounds parser work on characters.  An       *)
(* f-string is the concatenation of its pieces.                            *)
(***************************************************************************)
EXTENDS Integers, Sequences, FiniteSets, TLC

\* Largest step budget (--max-steps) explored.
MaxBudget == 3
\* Runs with a budget up to RichBudget draw the Oracle's answer from all of
\* OracleResponses, longer runs from CoreResponses.
RichBudget == 2

\* ---------------------------------------------------------------------
\* Characters and strings
\* ---------------------------------------------------------------------

Digit == {"0", "1", "2", "3", "4", "5", "6", "7", "8", "9"}

DigitValue(c) ==
    CASE c = "0" -> 0 [] c = "1" -> 1 [] c = "2" -> 2 [] c = "3" -> 3
      [] c = "4" -> 4 [] c = "5" -> 5 [] c = "6" -> 6 [] c = "7" -> 7
      [] c = "8" -> 8 [] c = "9" -> 9

\* The literal lit occurs in s at position i.
HasAt(s, i, lit) ==
    /\ i + Len(lit) - 1 <= Len(s)
    /\ SubSeq(s, i, i + Len(lit) - 1) = lit

\* Length of the longest run of digits of s that starts at position i (\d+ is
\* greedy, and what follows it in the pattern is never a digit).
RECURSIVE DigitRun(_, _)
DigitRun(s, i) ==
    IF i <= Len(s) /\ s[i] \in Digit THEN 1 + DigitRun(s, i + 1) ELSE 0

BoundsOpen == <<"b", "o", "u", "n", "d", "s", "=", "\"", "[">>

\* bounds="\[\d+,\d+\]\[\d+,\d+\]" matched at position i of s: the position
\* right after the match, or 0 when there is no match at i.
BoundsMatchEnd(s, i) ==
    LET p1 == i + Len(BoundsOpen)
        d1 == DigitRun(s, p1)
        p2 == p1 + d1 + 1
        d2 == DigitRun(s, p2)
        p3 == p2 + d2 + 2
        d3 == DigitRun(s, p3)
        p4 == p3 + d3 + 1
        d4 == DigitRun(s, p4)
        p5 == p4 + d4 + 2
    IN  IF /\ HasAt(s, i, BoundsOpen)
           /\ d1 >= 1 /\ HasAt(s, p1 + d1, <<",">>)
           /\ d2 >= 1 /\ HasAt(s, p2 + d2, <<"]", "[">>)
           /\ d3 >= 1 /\ HasAt(s, p3 + d3, <<",">>)
           /\ d4 >= 1 /\ HasAt(s, p4 + d4, <<"]", "\"">>)
        THEN p5
        ELSE 0

\* re.sub(r'bounds="\[\d+,\d+\]\[\d+,\d+\]"', '', s), scanning from position i:
\* leftmost matches, left to right, not overlapping.
RECURSIVE SubBoundsFrom(_, _)
SubBoundsFrom(s, i) ==
    IF i > Len(s) THEN <<>>
    ELSE IF BoundsMatchEnd(s, i) # 0 THEN SubBoundsFrom(s, BoundsMatchEnd(s, i))
    ELSE <<s[i]>> \o SubBoundsFrom(s, i + 1)

SubBounds(s) == SubBoundsFrom(s, 1)

\* Mutant of SubDigits: the digits stay.
SubDigitsKeeps(s) == s
\* re.sub(r'\d', '', s)
IsNotDigit(c) == c \notin Digit
SubDigits(s) == SelectSeq(s, IsNotDigit)

\* The fingerprint of a raw screen description.
Normalize(xml_content) == SubDigits(SubBounds(xml_content))

\* ---------------------------------------------------------------------
\* Screen descriptions
\* ---------------------------------------------------------------------

B1234 == <<"[", "1", ",", "2", "]", "[", "3", ",", "4", "]">>
B5678 == <<"[", "5", ",", "6", "]", "[", "7", ",", "8", "]">>
B12   == <<"[", "1", ",", "2", "]">>

\* A UI node as ElementTree gives it: an attribute that is missing is <<>>.
NodeA1 == [text |-> <<"A", "1">>, desc |-> <<>>, bounds |-> B1234]
NodeA2 == [text |-> <<"A", "2">>, desc |-> <<>>, bounds |-> B5678]
NodeB  == [text |-> <<>>, desc |-> <<"B">>, bounds |-> B1234]

Attr(name, value) ==
    IF value = <<>> THEN <<>> ELSE <<" ">> \o name \o <<"=", "\"">> \o value \o <<"\"">>

\* The text of the dump of one node.
NodeXml(n) ==
    <<"<", "n", "o", "d", "e">>
      \o Attr(<<"t", "e", "x", "t">>, n.text)
      \o Attr(<<"c", "o", "n", "t", "e", "n", "t", "-", "d", "e", "s", "c">>, n.desc)
      \o Attr(<<"b", "o", "u", "n", "d", "s">>, n.bounds)
      \o <<"/", ">">>

\* The dumps the device can return: two that differ in digits only and a third.
Nodes == {NodeA1, NodeA2, NodeB}
RawScreens == {NodeXml(n) : n \in Nodes}

\* ET.fromstring(xml_content) followed by root.iter('node'): the nodes of the
\* document, or a parse error for a text that is no dump.
EtNodes(xml_content) ==
    IF \E n \in Nodes : NodeXml(n) = xml_content
    THEN [ok |-> TRUE, nodes |-> <<CHOOSE n \in Nodes : NodeXml(n) = xml_content>>]
    ELSE [ok |-> FALSE, nodes |-> <<>>]

\* ---------------------------------------------------------------------
\* The device
\* ---------------------------------------------------------------------

\* One call of a device primitive, as the device sees it.
DeviceCall(cmd, args) == [cmd |-> cmd, args |-> args]

\* What `wm size` can do: raise, print something without "Physical size", or
\* print a size (a size of 0 is printed like any other).
WmSizes == {<<10, 20>>, <<0, 20>>}
WmBehaviours ==
    {[kind |-> "raise", size |-> <<0, 0>>], [kind |-> "nomatch", size |-> <<0, 0>>]}
      \cup {[kind |-> "size", size |-> sz] : sz \in WmSizes}

\* How the device behaves during one dispatch: whether an `input ...` command
\* goes through, and what `wm size` does.
DeviceBehaviours == [input_ok : BOOLEAN, wm : WmBehaviours]

\* The result of a primitive: the outcome string it returns, the device calls it
\* made, and the exception it let escape ("" when it returned).
Returned(status, calls) == [status |-> status, calls |-> calls, raised |-> ""]
Raised(e, calls) == [status |-> <<>>, calls |-> calls, raised |-> e]

\* ---------------------------------------------------------------------
\* perform_tap
\* ---------------------------------------------------------------------

\* s.replace("][", ",")
RECURSIVE ReplaceBracketPair(_)
ReplaceBracketPair(s) ==
    IF s = <<>> THEN <<>>
    ELSE IF HasAt(s, 1, <<"]", "[">>)
         THEN <<",">> \o ReplaceBracketPair(SubSeq(s, 3, Len(s)))
         ELSE <<s[1]>> \o ReplaceBracketPair(Tail(s))

\* s.replace("[", "").replace("]", "")
IsNotBracket(c) == c \notin {"[", "]"}
RemoveBrackets(s) == SelectSeq(s, IsNotBracket)

\* s.split(","): the pieces between the commas, empty pieces included.
RECURSIVE SplitComma(_, _)
SplitComma(s, piece) ==
    IF s = <<>> THEN <<piece>>
    ELSE IF s[1] = "," THEN <<piece>> \o SplitComma(Tail(s), <<>>)
    ELSE SplitComma(Tail(s), piece \o <<s[1]>>)

AllDigits(s) == s # <<>> /\ \A k \in 1..Len(s) : s[k] \in Digit

\* int(n) accepts an optional sign and then digits (the model's strings hold no
\* blanks and no underscores).
IsInt(n) ==
    IF n # <<>> /\ n[1] \in {"-", "+"} THEN AllDigits(Tail(n)) ELSE AllDigits(n)

RECURSIVE DigitsValue(_, _)
DigitsValue(s, acc) ==
    IF s = <<>> THEN acc ELSE DigitsValue(Tail(s), 10 * acc + DigitValue(s[1]))

IntOf(n) ==
    IF n[1] = "-" THEN 0 - DigitsValue(Tail(n), 0)
    ELSE IF n[1] = "+" THEN DigitsValue(Tail(n), 0)
    ELSE DigitsValue(n, 0)

\* The pieces that int() is applied to.
CoordPieces(bounds_str) == SplitComma(RemoveBrackets(ReplaceBracketPair(bounds_str)), <<>>)

\* The list comprehension and the unpacking into x1, y1, x2, y2 succeed.
CoordsParse(bounds_str) ==
    /\ Len(CoordPieces(bounds_str)) = 4
    /\ \A k \in 1..4 : IsInt(CoordPieces(bounds_str)[k])

TapPoint(bounds_str) ==
    LET c == [k \in 1..4 |-> IntOf(CoordPieces(bounds_str)[k])]
    IN  <<(c[1] + c[3]) \div 2, (c[2] + c[4]) \div 2>>

\* The first node whose bounds attribute is the literal names the element, by
\* its text, else by its content-desc, else (and when there is no such node or
\* the dump does not parse) the element is named by its bounds.
RECURSIVE DescribeFrom(_, _)
DescribeFrom(nodes, bounds_str) ==
    IF nodes = <<>> THEN <<"element with bounds ">> \o bounds_str
    ELSE IF nodes[1].bounds = bounds_str
         THEN IF nodes[1].text # <<>>
              THEN <<"element with text '">> \o nodes[1].text \o <<"'">>
              ELSE IF nodes[1].desc # <<>>
                   THEN <<"element with description '">> \o nodes[1].desc \o <<"'">>
                   ELSE <<"element with bounds ">> \o bounds_str
         ELSE DescribeFrom(Tail(nodes), bounds_str)

ElementDescription(bounds_str, xml_content) ==
    DescribeFrom(EtNodes(xml_content).nodes, bounds_str)

TapEmpty == <<"Failed to tap: bounds string was empty.">>
TapInvalid(bounds_str) ==
    <<"Failed to tap due to invalid bounds: ">> \o bounds_str \o <<". Error">>

\* perform_tap(device, bounds_str, xml_content); a missing bounds (None) is
\* the empty string, which the test `not bounds_str` treats alike.
perform_tap(bounds_str, xml_content, dev) ==
    IF bounds_str = <<>> THEN Returned(TapEmpty, <<>>)
    ELSE IF ~CoordsParse(bounds_str) THEN Returned(TapInvalid(bounds_str), <<>>)
    ELSE IF ~dev.input_ok
         THEN Returned(TapInvalid(bounds_str),
                       <<DeviceCall("input tap", TapPoint(bounds_str))>>)
         ELSE Returned(<<"Tapped on ">> \o ElementDescription(bounds_str, xml_content),
                       <<DeviceCall("input tap", TapPoint(bounds_str))>>)

\* ---------------------------------------------------------------------
\* perform_go_back
\* ---------------------------------------------------------------------

KeycodeBack == 4

perform_go_back(dev) ==
    IF dev.input_ok
    THEN Returned(<<"Executed 'go back'">>, <<DeviceCall("input keyevent", <<KeycodeBack>>)>>)
    ELSE Returned(<<"Failed to execute 'go back'. Error">>,
                  <<DeviceCall("input keyevent", <<KeycodeBack>>)>>)

\* ---------------------------------------------------------------------
\* get_screen_size and perform_scroll
\* ---------------------------------------------------------------------

SwipeDuration == 500

\* get_screen_size(device): the size, <<0, 0>> for (None, None); it has no
\* try, so an error of device.shell escapes.
get_screen_size(dev) ==
    CASE dev.wm.kind = "raise" -> Raised("wm size", <<DeviceCall("wm size", <<>>)>>)
      [] dev.wm.kind = "nomatch" ->
            [status |-> <<>>, calls |-> <<DeviceCall("wm size", <<>>)>>, raised |-> "",
             size |-> <<0, 0>>]
      [] dev.wm.kind = "size" ->
            [status |-> <<>>, calls |-> <<DeviceCall("wm size", <<>>)>>, raised |-> "",
             size |-> dev.wm.size]

\* int(height * 0.8) and int(height * 0.2), for the heights of WmSizes.
Pct80(height) == (height * 8) \div 10
Pct20(height) == (height * 2) \div 10

SwipeDown(width, height) ==
    DeviceCall("input swipe",
               <<width \div 2, Pct80(height), width \div 2, Pct20(height), SwipeDuration>>)
SwipeUp(width, height) ==
    DeviceCall("input swipe",
               <<width \div 2, Pct20(height), width \div 2, Pct80(height), SwipeDuration>>)

\* perform_scroll(device, direction): the screen size is asked first, whatever
\* the direction; neither it nor the swipe is inside a try.
perform_scroll(direction, dev) ==
    LET sz == get_screen_size(dev)
    IN  IF sz.raised # "" THEN Raised(sz.raised, sz.calls)
        ELSE IF sz.size[1] = 0 \/ sz.size[2] = 0
             THEN Returned(<<"Failed to get screen size for scrolling.">>, sz.calls)
        ELSE IF direction = "down"
             THEN IF dev.input_ok
                  THEN Returned(<<"Scrolled down">>,
                                sz.calls \o <<SwipeDown(sz.size[1], sz.size[2])>>)
                  ELSE Raised("input swipe",
                              sz.calls \o <<SwipeDown(sz.size[1], sz.size[2])>>)
        ELSE IF direction = "up"
             THEN IF dev.input_ok
                  THEN Returned(<<"Scrolled up">>,
                                sz.calls \o <<SwipeUp(sz.size[1], sz.size[2])>>)
                  ELSE Raised("input swipe",
                              sz.calls \o <<SwipeUp(sz.size[1], sz.size[2])>>)
        ELSE Returned(<<"Scroll direction '", direction, "' not supported.">>, sz.calls)

\* ---------------------------------------------------------------------
\* The Oracle's responses
\* ---------------------------------------------------------------------

Absent == "<absent>"

\* The value of the "action" key: missing, present but no JSON object (null, a
\* string, a list), or an object; a key the object lacks is Absent, a missing
\* or null bounds is <<>>.
ActionValue(shape, type, bounds, direction) ==
    [shape |-> shape, type |-> type, bounds |-> bounds, direction |-> direction]
NoActionKey == ActionValue("absent", Absent, <<>>, Absent)
NonDictAction == ActionValue("nondict", Absent, <<>>, Absent)
DictActions ==
    {ActionValue("dict", "TAP", b, Absent) : b \in {<<>>, B1234, B12}}
      \cup {ActionValue("dict", "SCROLL", <<>>, d) : d \in {Absent, "down", "up", "left"}}
      \cup {ActionValue("dict", "GO_BACK", <<>>, Absent),
            ActionValue("dict", "SWIPE", <<>>, Absent),
            ActionValue("dict", Absent, <<>>, Absent)}

\* A decoded JSON text: an object with the keys the loop reads, or another
\* JSON value (a list, a string, a number, null).
JsonObject(status, reflection, thought, action) ==
    [isdict |-> TRUE, status |-> status, reflection |-> reflection,
     thought |-> thought, action |-> action]
JsonOther == [isdict |-> FALSE, status |-> Absent, reflection |-> Absent,
              thought |-> Absent, action |-> NoActionKey]

JsonValues ==
    {JsonOther}
      \cup {JsonObject("IN_PROGRESS", "reflection", "thought", a) : a \in DictActions}
      \cup {JsonObject(st, "reflection", "thought", NoActionKey) :
                st \in {"IN_PROGRESS", "COMPLETE"}}
      \cup {JsonObject(Absent, Absent, Absent, NoActionKey)}
      \cup {JsonObject(st, "reflection", "thought", ActionValue("dict", "TAP", B1234, Absent)) :
                st \in {"COMPLETE", "DONE"}}
      \cup {JsonObject(st, "reflection", "thought", NonDictAction) :
                st \in {"IN_PROGRESS", "COMPLETE"}}

\* What analyze_screen returns: None (no client, unreadable screenshot, any
\* error of the request; an empty content is as falsy), or the content, which
\* is a JSON text or not.
NoAnalysis == [kind |-> "none", data |-> JsonOther]
NotJson == [kind |-> "text", data |-> JsonOther]
JsonText(v) == [kind |-> "json", data |-> v]
OracleResponses == {NoAnalysis, NotJson} \cup {JsonText(v) : v \in JsonValues}

\* The answers explored in the longer runs: each way the loop body can end,
\* with a scroll (the primitive that can raise) and no action as the actions.
CoreResponses ==
    {NoAnalysis, NotJson, JsonText(JsonOther),
     JsonText(JsonObject("COMPLETE", "reflection", "thought", NoActionKey)),
     JsonText(JsonObject("IN_PROGRESS", "reflection", "thought", NoActionKey)),
     JsonText(JsonObject("IN_PROGRESS", "reflection", "thought",
                         ActionValue("dict", "SCROLL", <<>>, Absent)))}

ResponsesFor(budget) == IF budget <= RichBudget THEN OracleResponses ELSE CoreResponses

\* json.loads(analysis_string) raises JSONDecodeError
JsonDecodeError(analysis_string) == analysis_string.kind # "json"
\* json.loads(analysis_string)
JsonLoads(analysis_string) == analysis_string.data

\* dict.get(key, default) for a key that may be Absent
GetOr(value, default) == IF value = Absent THEN default ELSE value

\* ---------------------------------------------------------------------
\* main(): state
\* ---------------------------------------------------------------------

Mission == <<"mission">>

\* The locals of one iteration (screenshot_path, xml_content, normalized_xml,
\* analysis_string, action_status) are assigned before they are read in every
\* iteration; they live inside the Iteration step.  analysis_data is kept: it
\* is what the last json.loads gave.
VARIABLES
    pc,                     \* where main() is
    max_steps,              \* args.max_steps
    range_pos,              \* the next value of range(max_steps)
    step,                   \* the loop variable
    action_history,
    screen_history,
    run_log,
    final_status,
    exc,                    \* the exception on its way to the except clause
    perceptions,            \* number of take_screenshot / get_ui_xml rounds
    oracle_calls,           \* the arguments of each analyze_screen call
    device_calls,           \* the commands sent by the action primitives
    sleeps,                 \* number of time.sleep(2) calls
    reports,                \* the arguments of each generate_pdf_report call
    trace,                  \* per iteration begun: what came in, what was raised
    analysis_data,          \* what the last successful json.loads returned
    call,                   \* a single call of one function: the function and its arguments
    result                  \* what that call returned

vars == <<pc, max_steps, range_pos, step, action_history, screen_history, run_log,
          final_status, exc, perceptions, oracle_calls, device_calls, sleeps, reports,
          trace, analysis_data, call, result>>

histories == <<action_history, screen_history, run_log>>
effects == <<perceptions, oracle_calls, device_calls, sleeps, reports>>
\* The variables of a single function call; main() leaves them alone.
single == <<call, result>>

\* final_status values
Unbound == <<"<unbound>">>
Unknown == <<"Unknown">>
Successful == <<"Successful">>
FailedMaxSteps == <<"Failed (Max steps reached)">>
FailedError(e) == <<"Failed (Error: ", e, ")">>

NoActionTaken == <<"No action taken.">>

\* Outside a single function call: no function, no arguments, no result.
NoCall == [fn |-> "", s |-> <<>>, t |-> <<>>, direction |-> "",
           dev |-> [input_ok |-> TRUE, wm |-> [kind |-> "nomatch", size |-> <<0, 0>>]]]
NoResult == [status |-> <<>>, calls |-> <<>>, raised |-> "", prints |-> <<>>]

Init ==
    /\ pc = "connect"
    /\ max_steps \in 0..MaxBudget
    /\ range_pos = 0
    /\ step = 0
    /\ action_history = <<>>
    /\ screen_history = <<>>
    /\ run_log = <<>>
    /\ final_status = Unbound
    /\ exc = ""
    /\ perceptions = 0
    /\ oracle_calls = <<>>
    /\ device_calls = <<>>
    /\ sleeps = 0
    /\ reports = <<>>
    /\ trace = <<>>
    /\ analysis_data = JsonOther
    /\ call = NoCall
    /\ result = NoResult

\* ---------------------------------------------------------------------
\* main(): the pieces of the loop body
\* ---------------------------------------------------------------------

\* Mutants of HasNext: a range that gives one value too many, or one too few.
HasNextOffByOne(pos, n) == pos <= n
HasNextStopsEarly(pos, n) == pos + 1 < n

\* range(max_steps) has another value to give.
HasNext(pos, n) == pos < n

\* Mutant of PerceptionFailed: `and` in place of `or`.
PerceptionFailedBoth(path, xml) == path = 0 /\ xml = <<>>

\* `not screenshot_path or not xml_content`: None is 0 for the path and <<>>
\* for the dump (an empty dump is as falsy).
PerceptionFailed(path, xml) == path = 0 \/ xml = <<>>

\* Lines 352-353, for each dump the device can return.
Fingerprint == [xml \in RawScreens \cup {<<>>} |-> Normalize(xml)]

\* Mutant of Lookup: nothing is ever found.
LookupEmpty(history, key) == <<>>

\* screen_history.get(key, [])
Lookup(history, key) == IF key \in DOMAIN history THEN history[key] ELSE <<>>

\* The arguments of analyze_screen that vary; the dump it also gets is named
\* here by its fingerprint.
Request(history, fingerprint, past) ==
    [history |-> history, screen |-> fingerprint, actions_on_this_screen |-> past]

\* `not analysis_string`
NoAnalysisString(s) == s.kind = "none"

\* Lines 370 and 376: .get on what json.loads gave, and on the value of
\* "action", is an AttributeError unless each is a dict.
GetRaises(data) == ~data.isdict \/ data.action.shape = "nondict"

\* Mutant of Dispatch: the action is carried out whatever the status.
DispatchWhateverStatus(data, xml, dev) ==
    CASE data.action.type = "TAP" -> perform_tap(data.action.bounds, xml, dev)
      [] data.action.type = "GO_BACK" -> perform_go_back(dev)
      [] data.action.type = "SCROLL" ->
            perform_scroll(GetOr(data.action.direction, "down"), dev)
      [] OTHER -> Returned(NoActionTaken, <<>>)

\* Lines 378-384: the action is carried out only when the status is
\* IN_PROGRESS and the type is one of the three known.
Dispatch(data, xml, dev) ==
    IF data.status = "IN_PROGRESS"
    THEN CASE data.action.type = "TAP" -> perform_tap(data.action.bounds, xml, dev)
           [] data.action.type = "GO_BACK" -> perform_go_back(dev)
           [] data.action.type = "SCROLL" ->
                perform_scroll(GetOr(data.action.direction, "down"), dev)
           [] OTHER -> Returned(NoActionTaken, <<>>)
    ELSE Returned(NoActionTaken, <<>>)

\* Mutant of RecordOutcome: the outcome is put in front of the list.
RecordOutcomeFirst(history, key, outcome) ==
    [k \in DOMAIN history \cup {key} |->
        IF k = key THEN <<outcome>> \o Lookup(history, k) ELSE history[k]]
\* Mutant of RecordOutcome: the history is started afresh with the screen of
\* the step.
RecordOutcomeFresh(history, key, outcome) ==
    [k \in {key} |-> Append(Lookup(history, k), outcome)]
\* Lines 388-390: the outcome is appended under the fingerprint.
RecordOutcome(history, key, outcome) ==
    [k \in DOMAIN history \cup {key} |->
        IF k = key THEN Append(Lookup(history, k), outcome) ELSE history[k]]

\* Mutant of StepLog: every entry carries the number 1.
StepLogFirst(n, path, data, outcome) ==
    [step |-> 1,
     screenshot_path |-> path,
     reflection |-> GetOr(data.reflection, "N/A"),
     thought |-> GetOr(data.thought, "N/A"),
     action |-> outcome]
\* Mutant of StepLog: the entry carries the 0-based loop variable.
StepLogZeroBased(n, path, data, outcome) ==
    [step |-> n,
     screenshot_path |-> path,
     reflection |-> GetOr(data.reflection, "N/A"),
     thought |-> GetOr(data.thought, "N/A"),
     action |-> outcome]

\* Lines 392-398: the step's entry of the run log.
StepLog(n, path, data, outcome) ==
    [step |-> n + 1,
     screenshot_path |-> path,
     reflection |-> GetOr(data.reflection, "N/A"),
     thought |-> GetOr(data.thought, "N/A"),
     action |-> outcome]

\* Mutant of IsComplete: the status is compared with another word.
IsCompleteTypo(data) == data.status = "COMPLETED"

\* analysis_data.get("status") == "COMPLETE"
IsComplete(data) == data.status = "COMPLETE"

\* Mutant of ReportDue: a log of one entry is not reported.
ReportIfSeveral(log) == Len(log) > 1
\* Mutant of ReportDue: the report is made whatever the log holds.
ReportAlways(log) == TRUE

\* `if run_log`
ReportDue(log) == log # <<>>

\* What the iteration was given, told from the inputs alone: the perception,
\* then what the Oracle answered.
InputClass(path, xml, response) ==
    IF path = 0 \/ xml = <<>> THEN "perception failed"
    ELSE IF response.kind = "none" THEN "oracle unavailable"
    ELSE IF response.kind = "text" THEN "oracle not json"
    ELSE IF ~response.data.isdict \/ response.data.action.shape = "nondict"
         THEN "oracle misshaped"
    ELSE IF response.data.status = "COMPLETE" THEN "complete"
    ELSE IF response.data.status = "IN_PROGRESS" THEN "in progress"
    ELSE "other status"

TraceEntry(input, raised) == [input |-> input, raised |-> raised]

\* ---------------------------------------------------------------------
\* main(): steps
\* ---------------------------------------------------------------------

\* Lines 331-340: the connection to the device.  AdbClient or devices() may
\* raise, the list may be empty (return), else the loop is entered.
Connect ==
    /\ pc = "connect"
    /\ \E outcome \in {"device", "no devices", "raise"} :
         CASE outcome = "device" ->
                /\ final_status' = Unknown
                /\ pc' = "loop"
                /\ exc' = exc
           [] outcome = "no devices" ->
                /\ pc' = "finally"
                /\ UNCHANGED <<final_status, exc>>
           [] outcome = "raise" ->
                /\ pc' = "except"
                /\ exc' = "adb"
                /\ UNCHANGED final_status
    /\ UNCHANGED <<max_steps, range_pos, step, histories, effects, trace, analysis_data,
                   single>>

\* Lines 347-349: perception failed; break.
PerceptionBreak(input) ==
    /\ pc' = "finally"
    /\ trace' = Append(trace, TraceEntry(input, ""))
    /\ UNCHANGED <<histories, final_status, exc, oracle_calls, device_calls, sleeps>>

\* Lines 358-361: no analysis; sleep, continue.
ThinkingFailed(input) ==
    /\ sleeps' = sleeps + 1
    /\ pc' = "loop"
    /\ trace' = Append(trace, TraceEntry(input, ""))
    /\ UNCHANGED <<histories, final_status, exc, device_calls>>

\* Lines 365-367: the analysis is no JSON; continue.
ParsingFailed(input) ==
    /\ pc' = "loop"
    /\ trace' = Append(trace, TraceEntry(input, ""))
    /\ UNCHANGED <<histories, final_status, exc, device_calls, sleeps>>

\* An exception leaves the loop body for the except clause; the device calls
\* made before it stay made.
Raise(input, e, calls) ==
    /\ exc' = e
    /\ pc' = "except"
    /\ device_calls' = device_calls \o calls
    /\ trace' = Append(trace, TraceEntry(input, e))
    /\ UNCHANGED <<histories, final_status, sleeps>>

\* Lines 386-407: the outcome goes to the two histories and the run log; then
\* a COMPLETE status ends the loop, any other sleeps and goes on.
RecordAndCheck(input, path, fingerprint, data, r) ==
    /\ device_calls' = device_calls \o r.calls
    /\ action_history' = Append(action_history, r.status)
    /\ screen_history' = RecordOutcome(screen_history, fingerprint, r.status)
    /\ run_log' = Append(run_log, StepLog(range_pos, path, data, r.status))
    /\ trace' = Append(trace, TraceEntry(input, ""))
    /\ IF IsComplete(data)
       THEN /\ final_status' = Successful
            /\ pc' = "finally"
            /\ UNCHANGED sleeps
       ELSE /\ sleeps' = sleeps + 1
            /\ pc' = "loop"
            /\ UNCHANGED final_status
    /\ UNCHANGED exc

\* Lines 352-407, once the perception is there.
ThinkAndAct(path, xml, response) ==
    LET normalized_xml == Fingerprint[xml]
        actions_on_this_screen == Lookup(screen_history, normalized_xml)
        input == InputClass(path, xml, response)
    IN  /\ oracle_calls' = Append(oracle_calls,
                                  Request(action_history, normalized_xml,
                                          actions_on_this_screen))
        /\ analysis_data' = IF NoAnalysisString(response) \/ JsonDecodeError(response)
                             THEN analysis_data
                             ELSE JsonLoads(response)
        /\ IF NoAnalysisString(response) THEN ThinkingFailed(input)
           ELSE IF JsonDecodeError(response) THEN ParsingFailed(input)
           ELSE IF GetRaises(JsonLoads(response))
                THEN Raise(input, "AttributeError", <<>>)
           ELSE \E dev \in DeviceBehaviours :
                  LET r == Dispatch(JsonLoads(response), xml, dev)
                  IN  IF r.raised # ""
                      THEN Raise(input, r.raised, r.calls)
                      ELSE RecordAndCheck(input, path, normalized_xml,
                                          JsonLoads(response), r)

\* Lines 341-407: one iteration of the for loop.  take_screenshot and
\* get_ui_xml both run, and both turn any error into None; the screenshot
\* file is named after the time, here after the round.
Iteration ==
    /\ pc = "loop"
    /\ HasNext(range_pos, max_steps)
    /\ step' = range_pos
    /\ range_pos' = range_pos + 1
    /\ perceptions' = perceptions + 1
    /\ \E path \in {0, perceptions + 1}, xml \in RawScreens \cup {<<>>} :
         IF PerceptionFailed(path, xml)
         THEN /\ PerceptionBreak(InputClass(path, xml, NoAnalysis))
              /\ UNCHANGED <<oracle_calls, analysis_data>>
         ELSE \E response \in ResponsesFor(max_steps) : ThinkAndAct(path, xml, response)
    /\ UNCHANGED <<max_steps, reports, single>>

\* Lines 409-411: the range is exhausted and the else clause of the for runs.
ForElse ==
    /\ pc = "loop"
    /\ ~HasNext(range_pos, max_steps)
    /\ final_status' = FailedMaxSteps
    /\ pc' = "finally"
    /\ UNCHANGED <<max_steps, range_pos, step, histories, exc, effects, trace,
                   analysis_data, single>>

\* Mutant of Except: the handler sits inside the loop, which then goes on.
ExceptResumes ==
    /\ pc = "except"
    /\ final_status' = FailedError(exc)
    /\ pc' = "loop"
    /\ UNCHANGED <<max_steps, range_pos, step, histories, exc, effects, trace,
                   analysis_data, single>>

\* Lines 413-415: any Exception raised inside the try.
Except ==
    /\ pc = "except"
    /\ final_status' = FailedError(exc)
    /\ pc' = "finally"
    /\ UNCHANGED <<max_steps, range_pos, step, histories, exc, effects, trace,
                   analysis_data, single>>

\* Lines 417-419: the finally clause.
Finally ==
    /\ pc = "finally"
    /\ reports' = IF ReportDue(run_log)
                  THEN Append(reports, [mission |-> Mission, run_log |-> run_log,
                                        final_status |-> final_status])
                  ELSE reports
    /\ pc' = "done"
    /\ UNCHANGED <<max_steps, range_pos, step, histories, final_status, exc,
                   perceptions, oracle_calls, device_calls, sleeps, trace, analysis_data,
                   single>>

Next ==
    \/ Connect
    \/ Iteration
    \/ ForElse
    \/ Except
    \/ Finally

Spec == Init /\ [][Next]_vars

\* ---------------------------------------------------------------------
\* Properties
\* ---------------------------------------------------------------------

Last(s) == s[Len(s)]

\* An iteration has just been carried out and was given an input of these classes.
IterationOn(classes) == trace' # trace /\ Last(trace').input \in classes

\* The last iteration begun was given an input of these classes.
EndedOn(classes) == trace # <<>> /\ Last(trace).input \in classes

CountIn(classes) == Cardinality({i \in 1..Len(trace) : trace[i].input \in classes})

\* The try block got as far as the for statement.
LoopEntered == pc # "connect" /\ final_status # Unbound /\ exc # "adb"

\* The one report a finished run with a non-empty log has made.
TheReport == [mission |-> Mission, run_log |-> run_log, final_status |-> final_status]

Rank(p) ==
    CASE p = "connect" -> 4 [] p = "loop" -> 3 [] p = "except" -> 2
      [] p = "finally" -> 1 [] p = "done" -> 0

\* Decreases with every step of main().
Remaining == 4 * (max_steps - range_pos) + Rank(pc)

\* C1: the loop makes at most max_steps iterations, each of which, skipped or
\* not, takes one value of the range, so analyze_screen is called at most
\* max_steps times; every step of main() brings its end nearer and main() is
\* never stuck before its end.
C1_BudgetBoundsLoop ==
    /\ [](/\ range_pos <= max_steps
          /\ Len(trace) = range_pos
          /\ perceptions = range_pos
          /\ Len(oracle_calls) <= range_pos
          /\ Remaining >= 0
          /\ pc # "done" => ENABLED Next)
    /\ [][/\ Remaining' < Remaining
          /\ trace' # trace => range_pos' = range_pos + 1]_vars

C1_Witness ==
    /\ pc = "done"
    /\ max_steps >= 2
    /\ range_pos = max_steps
    /\ Len(oracle_calls) = max_steps
    /\ CountIn({"oracle unavailable", "oracle not json"}) >= 1

\* C2: once the Oracle has answered with a decision whose status is COMPLETE,
\* that iteration is the last one, it sends nothing to the device, the final
\* status is "Successful" and is what the report is given, and from then on
\* there is no perception, no Oracle call and no device call.
C2_CompleteEndsRun ==
    /\ [](\A i \in 1..Len(trace) :
            trace[i].input = "complete" =>
              /\ i = Len(trace)
              /\ pc \in {"finally", "done"}
              /\ final_status = Successful
              /\ pc = "done" => reports = <<TheReport>>)
    /\ [][/\ IterationOn({"complete"}) => device_calls' = device_calls
          /\ EndedOn({"complete"}) =>
               UNCHANGED <<range_pos, perceptions, oracle_calls, device_calls>>]_vars

C2_Witness ==
    /\ pc = "done"
    /\ EndedOn({"complete"})
    /\ Len(trace) = 2
    /\ max_steps > 2
    /\ device_calls # <<>>

\* C3 as claimed: a COMPLETE decision in iteration k leaves a run log of
\* exactly k entries, whatever happened in the iterations before.
C3_LogLengthIsIteration ==
    (pc = "done" /\ EndedOn({"complete"})) => Len(run_log) = Len(trace)

\* C3, amended: a COMPLETE decision in iteration k leaves a run log whose last
\* entry has index k and which has k entries less one for every earlier
\* iteration in which analyze_screen gave nothing or gave no JSON; so exactly
\* k entries when every earlier iteration produced a decision.
C3_LogLengthLessSkipped ==
    (pc \in {"finally", "done"} /\ EndedOn({"complete"})) =>
        /\ Last(run_log).step = Len(trace)
        /\ Len(run_log) = Len(trace) - CountIn({"oracle unavailable", "oracle not json"})
        /\ CountIn({"oracle unavailable", "oracle not json"}) = 0 => Len(run_log) = Len(trace)

C3_Witness ==
    /\ pc = "done"
    /\ EndedOn({"complete"})
    /\ Len(trace) = 3
    /\ Len(run_log) = 1
    /\ run_log[1].step = 3

AllInProgress == \A i \in 1..Len(trace) : trace[i] = TraceEntry("in progress", "")

\* C4: when the loop has run max_steps iterations and each produced a decision
\* with status IN_PROGRESS (and raised nothing), the final status is "Failed
\* (Max steps reached)" and the run log has max_steps entries; and that final
\* status is only ever set with the range used up and no COMPLETE decision,
\* perception failure or exception in the run.
C4_MaxStepsExhausted ==
    /\ (/\ LoopEntered
        /\ pc \in {"finally", "done"}
        /\ Len(trace) = max_steps
        /\ AllInProgress) =>
          (final_status = FailedMaxSteps /\ Len(run_log) = max_steps)
    /\ final_status = FailedMaxSteps =>
          /\ range_pos = max_steps
          /\ pc \in {"finally", "done"}
          /\ CountIn({"complete", "perception failed"}) = 0
          /\ exc = ""

C4_Witness ==
    /\ pc = "done"
    /\ max_steps >= 2
    /\ Len(trace) = max_steps
    /\ AllInProgress
    /\ final_status = FailedMaxSteps
    /\ Len(run_log) = max_steps
    /\ device_calls # <<>>

\* C5 as claimed: an iteration in which analyze_screen gives nothing, or gives
\* what does not decode to a decision (no JSON, or JSON of another shape),
\* changes no history and no log, sends nothing to the device, takes one value
\* of the range and leaves the loop running.
C5_OracleFailureIsSkipped ==
    [][IterationOn({"oracle unavailable", "oracle not json", "oracle misshaped"}) =>
         /\ UNCHANGED histories
         /\ device_calls' = device_calls
         /\ range_pos' = range_pos + 1
         /\ exc' = ""
         /\ pc' = "loop"]_vars

\* C6: an iteration whose screenshot or dump is missing calls neither
\* analyze_screen nor the device and changes no history and no log; it is the
\* last iteration; the entries logged before it are the ones reported, in one
\* report, if there are any.
C6_PerceptionFailureStops ==
    /\ [][/\ IterationOn({"perception failed"}) =>
               /\ oracle_calls' = oracle_calls
               /\ device_calls' = device_calls
               /\ UNCHANGED histories
               /\ pc' = "finally"
          /\ EndedOn({"perception failed"}) =>
               UNCHANGED <<range_pos, perceptions, oracle_calls, device_calls, histories>>]_vars
    /\ []((pc = "done" /\ EndedOn({"perception failed"})) =>
             /\ Len(run_log) = CountIn({"in progress", "other status"})
             /\ reports = IF run_log = <<>> THEN <<>> ELSE <<TheReport>>)

C6_Witness ==
    /\ pc = "done"
    /\ Len(trace) = 3
    /\ EndedOn({"perception failed"})
    /\ Len(oracle_calls) = 2
    /\ Len(reports) = 1
    /\ Len(reports[1].run_log) = 2

\* A final status that names the perception failure: a label of its own.
NamesPerceptionFailure(label) ==
    /\ label \notin {Unbound, Unknown, Successful, FailedMaxSteps}
    /\ label # FailedError(exc)

\* C7 as claimed: when a run that entered the loop is over, the final status,
\* which is what the report is given, names the way the loop ended:
\* "Successful" after a COMPLETE decision, the error after an exception, the
\* perception failure after a missing screenshot or dump, and "Failed (Max
\* steps reached)" otherwise.
C7_LabelNamesTerminalState ==
    (pc = "done" /\ LoopEntered) =>
        /\ final_status =
             IF EndedOn({"complete"}) THEN Successful
             ELSE IF exc # "" THEN FailedError(exc)
             ELSE IF EndedOn({"perception failed"}) THEN final_status
             ELSE FailedMaxSteps
        /\ EndedOn({"perception failed"}) => NamesPerceptionFailure(final_status)
        /\ reports # <<>> => reports[1].final_status = final_status

\* C8: generate_pdf_report is not called before main() is over; when it is
\* over, it has been called once, with the mission, the run log and the final
\* status, if the run log has an entry, and not at all if it has none.
C8_OneReportIfLogged ==
    /\ pc # "done" => reports = <<>>
    /\ pc = "done" => reports = IF run_log = <<>> THEN <<>> ELSE <<TheReport>>

C8_Witness ==
    /\ pc = "done"
    /\ reports = <<TheReport>>
    /\ Len(run_log) = 2
    /\ exc # ""

\* C9 as claimed: an iteration that got a decision with status IN_PROGRESS
\* raises nothing whatever the device does: the outcome is appended to the
\* histories and the run log and the loop goes on.
C9_DispatchNeverRaises ==
    [][IterationOn({"in progress"}) =>
         /\ exc' = ""
         /\ pc' = "loop"
         /\ Len(run_log') = Len(run_log) + 1
         /\ Len(action_history') = Len(action_history) + 1]_vars

Faulted == trace # <<>> /\ Last(trace).raised # ""

\* C10: an exception raised in the loop body ends the loop there: the
\* iteration that raised is the last, it leaves the histories and the log as
\* they were, the final status becomes "Failed (Error: ...)" with that
\* exception, nothing is perceived, asked or sent to the device afterwards, and
\* the entries logged before are reported.
C10_FaultStopsLoop ==
    /\ [](\A i \in 1..Len(trace) :
            trace[i].raised # "" =>
              /\ i = Len(trace)
              /\ exc = trace[i].raised
              /\ pc \in {"except", "finally", "done"}
              /\ pc \in {"finally", "done"} => final_status = FailedError(exc)
              /\ pc = "done" => reports = IF run_log = <<>> THEN <<>> ELSE <<TheReport>>)
    /\ [][/\ (trace' # trace /\ Last(trace').raised # "") => UNCHANGED histories
          /\ Faulted =>
               UNCHANGED <<range_pos, perceptions, oracle_calls, device_calls, histories>>]_vars

C10_Witness ==
    /\ pc = "done"
    /\ Faulted
    /\ Len(trace) = 2
    /\ max_steps = 3
    /\ final_status = FailedError("wm size")
    /\ reports = <<TheReport>>

\* ---------------------------------------------------------------------
\* Single calls of perform_tap, perform_scroll and the normalisation
\* ---------------------------------------------------------------------

\* The functions are also run one call at a time, on arguments that main()
\* would pass only if the Oracle and the device produced them: any bounds
\* text, any direction, any dump.

Call(fn, s, t, direction, dev) ==
    [fn |-> fn, s |-> s, t |-> t, direction |-> direction, dev |-> dev]
Answer(r, prints) ==
    [status |-> r.status, calls |-> r.calls, raised |-> r.raised, prints |-> prints]

\* Bounds texts: four pieces with what may stand before, between and after.
BoundsText(open, n1, s1, n2, s2, n3, s3, n4, close) ==
    open \o n1 \o s1 \o n2 \o s2 \o n3 \o s3 \o n4 \o close
BoundsTexts ==
    {<<>>, B1234, B12}
      \cup {BoundsText(open, n1, s1, n2, s2, n3, <<",">>, n4, close) :
              open \in {<<"[">>, <<>>},
              n1 \in {<<"1", "0">>, <<>>, <<"x">>},
              s1 \in {<<",">>, <<"]", "[">>},
              n2 \in {<<"2", "0">>, <<"-", "3">>},
              s2 \in {<<"]", "[">>, <<",">>, <<>>},
              n3 \in {<<"3", "0">>, <<"7">>},
              n4 \in {<<"4", "0">>, <<>>},
              close \in {<<"]">>, <<>>}}

TapCalls ==
    {Call("perform_tap", b, xml, "", dev) :
        b \in BoundsTexts, xml \in RawScreens,
        dev \in {d \in DeviceBehaviours : d.wm.kind = "nomatch"}}

Directions == {"down", "up", "left", "right", "diagonal"}
ScrollCalls ==
    {Call("perform_scroll", <<>>, <<>>, d, dev) : d \in Directions, dev \in DeviceBehaviours}

\* Dumps: a bounds attribute whose numbers may be long or missing, with text
\* before and after it.
BoundsAttr(n1, n2, n3, n4) ==
    BoundsOpen \o n1 \o <<",">> \o n2 \o <<"]", "[">> \o n3 \o <<",">> \o n4 \o <<"]", "\"">>
RawTexts ==
    RawScreens
      \cup {pre \o BoundsAttr(n1, n2, <<"5">>, n4) \o post :
              pre \in {<<"a">>, <<"a", "1">>},
              n1 \in {<<"1">>, <<"2", "3">>, <<>>},
              n2 \in {<<"4">>, <<>>},
              n4 \in {<<"6">>, <<"7", "8">>},
              post \in {<<>>, <<"2">>}}
NormalizeCalls ==
    {Call("normalize", a, b, "", NoCall.dev) : a \in RawTexts, b \in RawTexts}

Calls == TapCalls \cup ScrollCalls \cup NormalizeCalls

CallInit ==
    /\ call \in Calls
    /\ result = NoResult
    /\ pc = "call"
    /\ max_steps = 0
    /\ range_pos = 0
    /\ step = Unbound
    /\ action_history = <<>>
    /\ screen_history = <<>>
    /\ run_log = <<>>
    /\ final_status = Unbound
    /\ exc = ""
    /\ perceptions = 0
    /\ oracle_calls = <<>>
    /\ device_calls = <<>>
    /\ sleeps = 0
    /\ reports = <<>>
    /\ trace = <<>>
    /\ analysis_data = JsonOther

main_vars ==
    <<max_steps, range_pos, step, histories, final_status, exc, effects, trace,
      analysis_data>>

CallTap ==
    /\ pc = "call"
    /\ call.fn = "perform_tap"
    /\ result' = Answer(perform_tap(call.s, call.t, call.dev), <<>>)
    /\ pc' = "returned"
    /\ UNCHANGED <<call, main_vars>>

CallScroll ==
    /\ pc = "call"
    /\ call.fn = "perform_scroll"
    /\ result' = Answer(perform_scroll(call.direction, call.dev), <<>>)
    /\ pc' = "returned"
    /\ UNCHANGED <<call, main_vars>>

CallNormalize ==
    /\ pc = "call"
    /\ call.fn = "normalize"
    /\ result' = Answer(Returned(<<>>, <<>>), <<Normalize(call.s), Normalize(call.t)>>)
    /\ pc' = "returned"
    /\ UNCHANGED <<call, main_vars>>

CallNext == CallTap \/ CallScroll \/ CallNormalize

CallSpec == CallInit /\ [][CallNext]_vars

TapReturned == pc = "returned" /\ call.fn = "perform_tap"
ScrollReturned == pc = "returned" /\ call.fn = "perform_scroll"
NormalizeReturned == pc = "returned" /\ call.fn = "normalize"

\* C11: a scroll in a direction other than down and up returns the 'direction
\* not supported' outcome and makes no device call at all, whatever the device
\* does (a screen size that cannot be had included).
C11_UnsupportedScrollTouchesNothing ==
    (ScrollReturned /\ call.direction \notin {"down", "up"})
        => result = Answer(Returned(<<"Scroll direction '", call.direction,
                                      "' not supported.">>, <<>>), <<>>)

\* The text [a,b][c,d].
BoundsForm(a, b, c, d) ==
    <<"[">> \o a \o <<",">> \o b \o <<"]", "[">> \o c \o <<",">> \o d \o <<"]">>

\* s is of the form [x1,y1][x2,y2]: four integers, written exactly so.
IsBoundsLiteral(s) ==
    LET n == SplitComma(RemoveBrackets(ReplaceBracketPair(s)), <<>>)
    IN  /\ Len(n) = 4
        /\ \A k \in 1..4 : IsInt(n[k])
        /\ s = BoundsForm(n[1], n[2], n[3], n[4])

TapFailures(s) == {TapEmpty, TapInvalid(s)}

\* C12: a tap calls the device at most once; bounds that parse into four
\* integers are tapped at the integer midpoint, [10,20][30,40] at (20, 30);
\* bounds that are empty or not of the form [x1,y1][x2,y2] leave the device
\* alone and return a failure string.
C12_TapAtMidpointOrRejected ==
    TapReturned =>
        /\ Len(result.calls) <= 1
        /\ CoordsParse(call.s) =>
              result.calls = <<DeviceCall("input tap", TapPoint(call.s))>>
        /\ call.s = BoundsForm(<<"1", "0">>, <<"2", "0">>, <<"3", "0">>, <<"4", "0">>) =>
              result.calls = <<DeviceCall("input tap", <<20, 30>>)>>
        /\ (call.s = <<>> \/ ~IsBoundsLiteral(call.s)) =>
              /\ result.calls = <<>>
              /\ result.status \in TapFailures(call.s)

\* ---------------------------------------------------------------------
\* Properties of the histories
\* ---------------------------------------------------------------------

\* Every iteration but one that lost its perception (and that one is the last)
\* asks the Oracle once, so the i-th request is that of iteration i, and the
\* fingerprint of the j-th record's iteration is in the request numbered by
\* the record's step.
StepScreen(j) == oracle_calls[run_log[j].step].screen

\* The outcomes, in order, of the first j records that were made before
\* iteration c on the screen of iteration c.
RECURSIVE EarlierOutcomes(_, _)
EarlierOutcomes(c, j) ==
    IF j = 0 THEN <<>>
    ELSE IF run_log[j].step < c /\ StepScreen(j) = oracle_calls[c].screen
         THEN Append(EarlierOutcomes(c, j - 1), run_log[j].action)
         ELSE EarlierOutcomes(c, j - 1)

\* C13: every request to the Oracle carries, as the past actions of the
\* screen, exactly the outcomes recorded in earlier iterations of the run whose
\* dump had the same fingerprint, in the order they were recorded, and nothing
\* for a fingerprint not seen before.
C13_PastActionsOfThisScreen ==
    \A c \in 1..Len(oracle_calls) :
        oracle_calls[c].actions_on_this_screen = EarlierOutcomes(c, Len(run_log))

\* Two visits of a screen recorded two different outcomes, and the third visit
\* passed the two in that order.
C13_Witness ==
    /\ Len(oracle_calls) = 3
    /\ Len(run_log) >= 2
    /\ oracle_calls[1].screen = oracle_calls[3].screen
    /\ oracle_calls[2].screen = oracle_calls[3].screen
    /\ run_log[1].action # run_log[2].action
    /\ oracle_calls[3].actions_on_this_screen = <<run_log[1].action, run_log[2].action>>

IsPrefix(a, b) == Len(a) <= Len(b) /\ SubSeq(b, 1, Len(a)) = a

\* C14: the history of the screens only grows: in every step, what is kept
\* under a fingerprint before the step is a prefix of what is kept after it, at
\* most one outcome is added, and only under the fingerprint of the dump that
\* this step took and sent to the Oracle.
C14_ScreenHistoryAppendOnly ==
    [][/\ DOMAIN screen_history \subseteq DOMAIN screen_history'
       /\ \A fp \in DOMAIN screen_history' :
            /\ IsPrefix(Lookup(screen_history, fp), screen_history'[fp])
            /\ Len(screen_history'[fp]) <= Len(Lookup(screen_history, fp)) + 1
            /\ screen_history'[fp] # Lookup(screen_history, fp) =>
                  /\ oracle_calls' # oracle_calls
                  /\ fp = Last(oracle_calls').screen
                  /\ \A other \in DOMAIN screen_history' \ {fp} :
                        screen_history'[other] = Lookup(screen_history, other)]_vars

\* Two screens have a history, one of them with two outcomes.
C14_Witness ==
    /\ Cardinality(DOMAIN screen_history) = 2
    /\ \E fp \in DOMAIN screen_history : Len(screen_history[fp]) = 2

\* ---------------------------------------------------------------------
\* Properties of the normalisation
\* ---------------------------------------------------------------------

\* s with every digit deleted.
IsNoDigit(c) == c \notin Digit
DigitsDeleted(s) == SelectSeq(s, IsNoDigit)

\* s with every maximal run of digits replaced by one digit.
RECURSIVE OneDigitPerRun(_)
OneDigitPerRun(s) ==
    IF s = <<>> THEN <<>>
    ELSE IF s[1] \in Digit
         THEN <<"0">> \o OneDigitPerRun(SubSeq(s, 1 + DigitRun(s, 1), Len(s)))
         ELSE <<s[1]>> \o OneDigitPerRun(Tail(s))

\* C15, as claimed: two dumps that are equal once every digit is deleted have
\* the same fingerprint.
C15_EqualWithoutDigits ==
    (NormalizeReturned /\ DigitsDeleted(call.s) = DigitsDeleted(call.t))
        => result.prints[1] = result.prints[2]

\* C15: two dumps that are equal once every maximal run of digits is replaced
\* by a single digit (they differ in the digits of their numbers only, and no
\* number of one is missing in the other) have the same fingerprint.
C15_EqualUpToNumbers ==
    (NormalizeReturned /\ OneDigitPerRun(call.s) = OneDigitPerRun(call.t))
        => result.prints[1] = result.prints[2]

\* Two dumps of the device that differ in a digit of the text and in the
\* coordinates got one fingerprint.
C15_Witness ==
    /\ NormalizeReturned
    /\ call.s = NodeXml(NodeA1)
    /\ call.t = NodeXml(NodeA2)
    /\ result.prints[1] = result.prints[2]

\* ---------------------------------------------------------------------
\* Properties of the iterations
\* ---------------------------------------------------------------------

Decisions == {"complete", "in progress", "other status"}

\* The iterations that got a decision and raised nothing: those that recorded.
Recording == {i \in 1..Len(trace) : trace[i].input \in Decisions /\ trace[i].raised = ""}

\* C16, as claimed, for the runs in which nothing was raised: a run that began
\* an iteration ends without a report only if its first iteration lost its
\* perception.
C16_NoReportOnlyAtFirstStep ==
    (pc = "done" /\ LoopEntered /\ trace # <<>> /\ exc = "" /\ reports = <<>>)
        => (Len(trace) = 1 /\ EndedOn({"perception failed"}))

\* C16: a run that entered the loop ends without a report exactly when none of
\* its iterations recorded a step (the first one lost its perception, or every
\* one was skipped or stopped before it recorded); every other run has made
\* one report when it ends.
C16_NoReportIffNothingRecorded ==
    (pc = "done" /\ LoopEntered)
        => /\ reports = <<>> <=> Recording = {}
           /\ Len(reports) = IF Recording = {} THEN 0 ELSE 1

\* A run of two iterations, both skipped for want of an answer, ended without
\* a report.
C16_Witness ==
    /\ pc = "done"
    /\ reports = <<>>
    /\ Len(trace) = 2
    /\ CountIn({"oracle unavailable", "oracle not json"}) = 2

ActionTypes == {"TAP", "GO_BACK", "SCROLL"}
Primitives == {"input tap", "input keyevent", "input swipe"}

\* C17: an iteration that got a decision calls a device primitive (tap, back
\* key, swipe) only if the status is IN_PROGRESS and the type is TAP, GO_BACK
\* or SCROLL; when the status is COMPLETE, or the type is missing or another
\* word, the device is not called, the outcome is "No action taken.", and that
\* outcome is appended to the action history, to the history of the screen of
\* this iteration and, in a step record, to the run log.
C17_DispatchOnlyKnownActions ==
    [][IterationOn(Decisions) =>
          LET d == analysis_data'
              fp == Last(oracle_calls').screen
          IN  /\ (\E k \in (Len(device_calls) + 1)..Len(device_calls') :
                      device_calls'[k].cmd \in Primitives)
                    => (d.status = "IN_PROGRESS" /\ d.action.type \in ActionTypes)
              /\ (d.status = "COMPLETE" \/ d.action.type \notin ActionTypes)
                    => /\ device_calls' = device_calls
                       /\ action_history' = Append(action_history, NoActionTaken)
                       /\ screen_history'[fp]
                            = Append(Lookup(screen_history, fp), NoActionTaken)
                       /\ Len(run_log') = Len(run_log) + 1
                       /\ SubSeq(run_log', 1, Len(run_log)) = run_log
                       /\ Last(run_log').action = NoActionTaken]_vars

\* A decision COMPLETE that carried a TAP was recorded as no action, the
\* device untouched.
C17_Witness ==
    /\ trace # <<>>
    /\ Last(trace) = TraceEntry("complete", "")
    /\ analysis_data.status = "COMPLETE"
    /\ analysis_data.action.type = "TAP"
    /\ analysis_data.action.bounds = B1234
    /\ device_calls = <<>>
    /\ Len(run_log) = 1
    /\ Last(action_history) = NoActionTaken

\* C18: the delay between steps is made once by every iteration that was
\* skipped because the Oracle gave no answer or an answer that is no JSON, and
\* once by every iteration that recorded a step and did not end the loop; it
\* is not made by an iteration that got COMPLETE, lost its perception or
\* raised, nor outside the iterations.
C18_DelayAfterStepOrFailure ==
    [][/\ IterationOn({"oracle unavailable", "oracle not json"}) => sleeps' = sleeps + 1
       /\ (IterationOn({"in progress", "other status"}) /\ Last(trace').raised = "")
             => sleeps' = sleeps + 1
       /\ (IterationOn({"complete", "perception failed"})
             \/ (trace' # trace /\ Last(trace').raised # ""))
             => sleeps' = sleeps
       /\ trace' = trace => sleeps' = sleeps]_vars

RECURSIVE SumLen(_, _)
SumLen(history, keys) ==
    IF keys = {} THEN 0
    ELSE LET k == CHOOSE key \in keys : TRUE
         IN  Len(history[k]) + SumLen(history, keys \ {k})

\* The outcomes, in order, of the first j entries of the action history that
\* were recorded on the screen fp.
RECURSIVE UnderScreen(_, _)
UnderScreen(fp, j) ==
    IF j = 0 THEN <<>>
    ELSE IF StepScreen(j) = fp
         THEN Append(UnderScreen(fp, j - 1), action_history[j])
         ELSE UnderScreen(fp, j - 1)

\* C19: between iterations the action history, the run log and the lists of
\* the screen history taken together have the same length; the j-th entry of
\* the action history is the outcome of the j-th step record; and the list kept
\* for a fingerprint is the part of the action history that was recorded on
\* that fingerprint, in order.
C19_HistoriesAgree ==
    /\ Len(action_history) = Len(run_log)
    /\ Len(run_log) = SumLen(screen_history, DOMAIN screen_history)
    /\ \A j \in 1..Len(run_log) :
          /\ action_history[j] = run_log[j].action
          /\ StepScreen(j) \in DOMAIN screen_history
    /\ \A fp \in DOMAIN screen_history :
          screen_history[fp] = UnderScreen(fp, Len(run_log))

\* Three steps were recorded, on two screens.
C19_Witness ==
    /\ Len(action_history) = 3
    /\ Len(run_log) = 3
    /\ Cardinality(DOMAIN screen_history) = 2

\* C20: the number in a step record is the 1-based number of the iteration
\* that recorded it: the j-th record carries the number of the j-th iteration
\* that recorded, so the numbers grow strictly, lie in 1..max_steps, and skip
\* the iterations that recorded nothing; the log is no longer than the number
\* of its last record, and that is no more than the iterations begun.
C20_StepIsIterationNumber ==
    /\ Len(run_log) = Cardinality(Recording)
    /\ \A j \in 1..Len(run_log) :
          /\ run_log[j].step \in Recording
          /\ run_log[j].step \in 1..max_steps
          /\ Cardinality({i \in Recording : i <= run_log[j].step}) = j
          /\ j > 1 => run_log[j - 1].step < run_log[j].step
    /\ run_log # <<>> =>
          /\ Len(run_log) <= Last(run_log).step
          /\ Last(run_log).step <= Len(trace)
    /\ Len(run_log) <= Len(trace)

\* The first iteration was skipped and the two after it recorded: the log
\* holds the numbers 2 and 3.
C20_Witness ==
    /\ Len(trace) = 3
    /\ 1 \notin Recording
    /\ Len(run_log) = 2
    /\ run_log[1].step = 2
    /\ run_log[2].step = 3

====
